---------------------------- MODULE Spec2Model ----------------------------
(***************************************************************************)
(* Windowing and colour-mapping engine of the DICOM viewer.                *)
(*                                                                         *)
(* The module models                                                       *)
(*   - CColorPalette: the eight 256-entry gray -> RGB tables,              *)
(*   - CImageConverter: buildWindowLevelLut, convertMonochrome, convertRgb *)
(*     and toQImage (the CPU path),                                        *)
(*   - QtImageRenderer::render (the snapshot port), and                    *)
(*   - the fragment shader of CImageViewer with uploadTexture and          *)
(*     uploadPalette (the accelerated path),                               *)
(*   - CImageViewer: its window/level, palette and image handlers,         *)
(*     initializeGL, ensureGlResources, updateDisplayImage and paintGL.    *)
(*                                                                         *)
(* Numbers.  Window centre and width are doubles in the program; the model *)
(* draws integer-valued ones and keeps center - width/2 exact by working   *)
(* in halves (lower2 = 2*center - width).  The double product             *)
(* (rawValue - lowerBound) * (255.0 / width) truncates to the same integer *)
(* as the exact quotient but at the offsets of ScaleLost, where it falls   *)
(* just below an integer the exact quotient reaches and the truncation     *)
(* yields one less.  The palette generators compute in doubles as well,    *)
(* and the indices where the same happens are listed per channel.          *)
(***************************************************************************)
EXTENDS Integers, Sequences, FiniteSets, TLC

(***************************************************************************)
(* Enumerations (include/DicomViewer/Types.h)                              *)
(***************************************************************************)
EPhotometricInterpretation ==
    {"Monochrome1", "Monochrome2", "Rgb", "PaletteColor", "Unknown"}

EPaletteType ==
    {"Grayscale", "Inverted", "Hot", "Cool", "Rainbow", "Bone", "Copper", "Ocean"}

Min(a, b) == IF a < b THEN a ELSE b

Max(a, b) == IF a < b THEN b ELSE a

\* static_cast<uint8_t> of a non-negative integer value
ToUint8(x) == x % 256

\* 1 when the double computation at index i truncates one below the exact floor
Lost(S, i) == IF i \in S THEN 1 ELSE 0

(***************************************************************************)
(* CColorPalette generators: index i in 0..255, t = i / 255.0              *)
(***************************************************************************)
\* a mutation of generateGrayscale: the blue channel runs downwards
generateGrayscale_BlueReversed == [i \in 0..255 |-> <<i, i, ToUint8(255 - i)>>]

generateGrayscale == [i \in 0..255 |-> <<i, i, i>>]

generateInverted == [i \in 0..255 |-> <<ToUint8(255 - i), ToUint8(255 - i), ToUint8(255 - i)>>]

HotLostG == {96, 105, 108, 117, 129, 138, 147, 162, 171, 186}

HotLostB == {192, 193, 194, 195, 200, 201, 202, 203, 208, 209, 210, 211, 216, 217,
             218, 219, 225, 226, 227, 233, 234, 235, 241, 242, 243, 249, 250, 251}

\* t < 0.375 <=> 8i < 765 ; t < 0.75 <=> 4i < 765
generateHot ==
    [i \in 0..255 |->
        LET r == IF 8 * i < 765 THEN ToUint8((8 * i) \div 3) ELSE 255
            g == IF 8 * i < 765 THEN 0
                 ELSE IF 4 * i < 765
                      THEN ToUint8(((8 * i - 765) \div 3) - Lost(HotLostG, i))
                      ELSE 255
            b == IF 4 * i < 765 THEN 0
                 ELSE ToUint8((4 * i - 765) - Lost(HotLostB, i))
        IN <<r, g, b>>]

CoolLostG == {43, 59, 74, 75, 90, 91, 106, 107, 122, 123, 132, 133, 140, 141, 148,
              149, 156, 157, 164, 165, 172, 173, 180, 181, 188, 189, 196, 197, 198,
              204, 205, 206, 212, 213, 214, 220, 221, 222, 228, 229, 230, 236, 237,
              238, 244, 245, 246, 252, 253, 254}

generateCool ==
    [i \in 0..255 |-> <<ToUint8(i), ToUint8((255 - i) - Lost(CoolLostG, i)), 255>>]

RainbowLostR == {53, 59, 66, 78, 79, 82, 83, 84, 85, 86, 87, 88, 90, 91, 92, 94, 95,
                 98, 205, 206, 207, 208, 209, 210, 211, 218, 219, 220, 221, 224, 225,
                 231, 232, 233, 234, 235, 237, 241, 244, 245, 247, 248, 249, 251, 253}

RainbowLostG == {2, 4, 5, 7, 10, 14, 17, 18, 20, 23, 28, 36, 38, 156, 157, 158, 164,
                 166, 168, 170, 172, 174, 176, 180, 182, 184, 188, 189, 190, 196, 197}

RainbowLostB == {103, 104, 105, 109, 110, 112, 116, 117, 122, 124, 129, 130, 131, 135,
                 136, 137, 138, 139, 142, 144, 146, 148, 150, 152}

\* hue = 300 t = 20i/17, hue/60 = i/51; x = 1 - |fmod(i/51, 2) - 1|, so
\* 255 x = 5 * (51 - |(i mod 102) - 51|); the sector tests hue < 60k are i < 51k.
generateRainbow ==
    [i \in 0..255 |->
        LET m   == i % 102
            d   == IF m < 51 THEN 51 - m ELSE m - 51
            x   == 5 * (51 - d)
            xr  == ToUint8(x - Lost(RainbowLostR, i))
            xg  == ToUint8(x - Lost(RainbowLostG, i))
            xb  == ToUint8(x - Lost(RainbowLostB, i))
        IN IF i < 51 THEN <<255, xg, 0>>
           ELSE IF i < 102 THEN <<xr, 255, 0>>
           ELSE IF i < 153 THEN <<0, 255, xb>>
           ELSE IF i < 204 THEN <<0, xg, 255>>
           ELSE <<xr, 0, 255>>]

\* only the final ("simplified") formula is stored; the first computation of
\* r, g, b is overwritten before m_lut[i] is assigned.
\* t*255*0.9 + t*t*25.5 = (2295 i + i*i) / 2550
generateBone ==
    [i \in 0..255 |->
        LET v == Min(255, (2295 * i + i * i) \div 2550)
        IN <<ToUint8(v), ToUint8(v), ToUint8(Min(255, i))>>]

CopperLostR == {36, 72, 144}

generateCopper ==
    [i \in 0..255 |->
        <<ToUint8(Min(255, (5 * i) \div 4) - Lost(CopperLostR, i)),
          ToUint8((7812 * i) \div 10000),
          ToUint8((4975 * i) \div 10000)>>]

OceanLostB == {130, 185, 210, 250}

generateOcean ==
    [i \in 0..255 |->
        <<ToUint8((i * i) \div 255),
          ToUint8(i),
          ToUint8(((510 + 3 * i) \div 5) - Lost(OceanLostB, i))>>]

generateLut(type) ==
    CASE type = "Grayscale" -> generateGrayscale
      [] type = "Inverted"  -> generateInverted
      [] type = "Hot"       -> generateHot
      [] type = "Cool"      -> generateCool
      [] type = "Rainbow"   -> generateRainbow
      [] type = "Bone"      -> generateBone
      [] type = "Copper"    -> generateCopper
      [] type = "Ocean"     -> generateOcean
      [] OTHER              -> generateGrayscale

\* the table of each kind, as a freshly constructed CColorPalette(type) holds it
PaletteTable == [type \in EPaletteType |-> generateLut(type)]

(***************************************************************************)
(* CColorPalette object: m_type and the cached table m_lut                 *)
(***************************************************************************)
\* CColorPalette::CColorPalette(): Grayscale, table generated
CColorPalette == [m_type |-> "Grayscale", m_lut |-> generateLut("Grayscale")]

\* a mutation of setType: the kind changes, the cached table is kept
setType_KeepTable(pal, type) ==
    IF pal.m_type # type
    THEN [m_type |-> type, m_lut |-> pal.m_lut]
    ELSE pal

\* CColorPalette::CColorPalette(EPaletteType): a palette constructed with a kind
CColorPaletteOf(type) == [m_type |-> type, m_lut |-> generateLut(type)]

\* CColorPalette::setType: regenerates the table only when the kind changes
setType(pal, type) ==
    IF pal.m_type # type
    THEN [m_type |-> type, m_lut |-> generateLut(type)]
    ELSE pal

\* CColorPalette::mapRgb
mapRgb(pal, grayValue) == pal.m_lut[grayValue]

(***************************************************************************)
(* CDicomImage                                                             *)
(*   width, height, samplesPerPixel : SImageDimensions                     *)
(*   bitsPerSample, pixelSigned     : m_bitsPerSample, m_pixelSigned       *)
(*   photometric                    : m_photometricInterpretation          *)
(*   pixelData                      : m_pixelData, a sequence of bytes     *)
(***************************************************************************)
\* CDicomImage::isValid
isValid(image) ==
    /\ Len(image.pixelData) > 0
    /\ image.width > 0
    /\ image.height > 0
    /\ image.photometric # "Unknown"

\* marker for a byte read past the end of m_pixelData
OutOfBounds == -1

\* pixelData.data()[k], k counted from 0
ByteAt(data, k) == IF k < Len(data) THEN data[k + 1] ELSE OutOfBounds

\* reinterpret_cast<const uint16_t *>(pixelData.data())[index] on the
\* little-endian host the viewer is built for
Uint16At(data, index) ==
    LET lo == ByteAt(data, 2 * index)
        hi == ByteAt(data, 2 * index + 1)
    IN IF lo = OutOfBounds \/ hi = OutOfBounds THEN OutOfBounds ELSE lo + 256 * hi

\* reinterpret_cast<const int16_t *>(src)[index]; the marker is outside int16
NoSample == 99999

Int16At(data, index) ==
    LET u == Uint16At(data, index)
    IN IF u = OutOfBounds THEN NoSample ELSE IF u >= 32768 THEN u - 65536 ELSE u

(***************************************************************************)
(* CImageConverter::buildWindowLevelLut                                    *)
(***************************************************************************)
\* scale = 255.0 / width is a rounded double: the doubled offsets
\* 2 * (rawValue - lowerBound) at which (rawValue - lowerBound) * scale falls
\* just below the integer the exact product is, for the widths the model draws
ScaleLost(width) ==
    IF width = 210 THEN {84, 168, 196, 308, 336, 364, 392} ELSE {}

\* a mutation of LutBranch: only a negative width is blank
LutBranch_StrictlyNegative(wl) == IF wl.width < 0 THEN "blank" ELSE "windowed"

\* which branch builds the table: the early return of width <= 0 ("blank",
\* taken before scale = 255.0 / width is computed) or the loop ("windowed")
LutBranch(wl) == IF wl.width <= 0 THEN "blank" ELSE "windowed"

\* a mutation of lutValue: no clamp at the upper bound, the cast wraps
lutValue_NoUpperClamp(wl, rawValue) ==
    LET lower2 == 2 * wl.center - wl.width
    IN IF 2 * rawValue <= lower2 THEN 0
       ELSE ToUint8(((2 * rawValue - lower2) * 255) \div (2 * wl.width))

\* the loop body before inversion: clamp below lowerBound and above
\* upperBound, else truncate (rawValue - lowerBound) * scale; the product is
\* the exact one but at the offsets of ScaleLost
lutValue(wl, rawValue) ==
    LET lower2 == 2 * wl.center - wl.width     \* 2 * lowerBound
        upper2 == 2 * wl.center + wl.width     \* 2 * upperBound
        exact  == ((2 * rawValue - lower2) * 255) \div (2 * wl.width)
    IN IF 2 * rawValue <= lower2 THEN 0
       ELSE IF 2 * rawValue >= upper2 THEN 255
       ELSE ToUint8(exact - Lost(ScaleLost(wl.width), 2 * rawValue - lower2))

\* a mutation of lutEntry: only values inside the window are inverted
lutEntry_InvertInsideWindow(wl, rawValue, invertForMonochrome1) ==
    LET value == lutValue(wl, rawValue)
    IN IF invertForMonochrome1 /\ value \notin {0, 255} THEN 255 - value ELSE value

\* one iteration of the loop: the value, inverted when the flag is set
lutEntry(wl, rawValue, invertForMonochrome1) ==
    LET value == lutValue(wl, rawValue)
    IN IF invertForMonochrome1 THEN 255 - value ELSE value

buildWindowLevelLut(wl, minValue0, maxValue0, invertForMonochrome1) ==
    LET minValue == IF maxValue0 < minValue0 THEN maxValue0 ELSE minValue0
        maxValue == IF maxValue0 < minValue0 THEN minValue0 ELSE maxValue0
        range    == maxValue - minValue + 1
    IN IF LutBranch(wl) = "blank"
       THEN [i \in 0..(range - 1) |-> 0]
       ELSE [i \in 0..(range - 1) |-> lutEntry(wl, minValue + i, invertForMonochrome1)]

(***************************************************************************)
(* QImage: a null image, or width x height pixels in rows of               *)
(* width * bytesPerPixel bytes (the part of a scan line the converter      *)
(* writes)                                                                 *)
(***************************************************************************)
NullImage == [isNull |-> TRUE]

QImage(w, h, fmt, rowBytes) ==
    [isNull |-> FALSE, width |-> w, height |-> h, format |-> fmt, rows |-> rowBytes]

\* the sample domain convertMonochrome passes to buildWindowLevelLut
minValueOf(image) ==
    IF image.bitsPerSample = 16 /\ image.pixelSigned THEN -32768 ELSE 0

maxValueOf(image) ==
    IF image.bitsPerSample = 16
    THEN (IF image.pixelSigned THEN 32767 ELSE 65535)
    ELSE 255

\* the sample convertMonochrome reads for pixel `index`
pixelValueAt(image, index) ==
    IF image.bitsPerSample = 16
    THEN (IF image.pixelSigned
          THEN Int16At(image.pixelData, index)
          ELSE Uint16At(image.pixelData, index))
    ELSE ByteAt(image.pixelData, index)

\* lut[pixelValue + lutOffset]; a read past the buffer stays marked
lutLookup(lut, image, index) ==
    LET pixelValue == pixelValueAt(image, index)
        lutOffset  == -minValueOf(image)
        pastEnd    == IF image.bitsPerSample = 16 /\ image.pixelSigned
                      THEN NoSample ELSE OutOfBounds
    IN IF pixelValue = pastEnd
       THEN OutOfBounds
       ELSE lut[pixelValue + lutOffset]

\* CImageConverter::convertMonochrome with the converter's palette `pal`
convertMonochrome(pal, image, wl) ==
    LET pixelCount    == image.width * image.height
        bytesPerPixel == IF image.bitsPerSample = 16 THEN 2 ELSE 1
        expectedSize  == pixelCount * bytesPerPixel
        useColorPalette == pal.m_type # "Grayscale"
        isMonochrome1 == image.photometric = "Monochrome1"
        lut == buildWindowLevelLut(wl, minValueOf(image), maxValueOf(image),
                                   isMonochrome1)
        value(x, y) == lutLookup(lut, image, y * image.width + x)
    IN IF Len(image.pixelData) = 0 THEN NullImage
       ELSE IF Len(image.pixelData) < expectedSize THEN NullImage
       ELSE IF ~useColorPalette
       THEN QImage(image.width, image.height, "Grayscale8",
                   [y \in 1..image.height |->
                       [x \in 1..image.width |-> value(x - 1, y - 1)]])
       ELSE QImage(image.width, image.height, "RGB888",
                   [y \in 1..image.height |->
                       [k \in 1..(3 * image.width) |->
                           LET v == value((k - 1) \div 3, y - 1)
                           IN IF v = OutOfBounds THEN OutOfBounds
                              ELSE mapRgb(pal, v)[((k - 1) % 3) + 1]]])

\* a mutation of convertRgb: the source row starts at y * width
convertRgb_RowStride(image) ==
    LET expectedSize == image.width * image.height * 3
        rowBytes     == image.width * 3
    IN IF Len(image.pixelData) = 0 THEN NullImage
       ELSE IF Len(image.pixelData) < expectedSize THEN NullImage
       ELSE QImage(image.width, image.height, "RGB888",
                   [y \in 1..image.height |->
                       [k \in 1..rowBytes |->
                           ByteAt(image.pixelData, (y - 1) * image.width + (k - 1))]])

\* CImageConverter::convertRgb
convertRgb(image) ==
    LET expectedSize == image.width * image.height * 3
        rowBytes     == image.width * 3
    IN IF Len(image.pixelData) = 0 THEN NullImage
       ELSE IF Len(image.pixelData) < expectedSize THEN NullImage
       ELSE QImage(image.width, image.height, "RGB888",
                   [y \in 1..image.height |->
                       [k \in 1..rowBytes |->
                           ByteAt(image.pixelData, (y - 1) * rowBytes + (k - 1))]])

\* CImageConverter::toQImage(dicomImage, windowLevel)
toQImage(pal, image, wl) ==
    IF ~isValid(image) THEN NullImage
    ELSE IF image.photometric \in {"Monochrome1", "Monochrome2"}
         THEN convertMonochrome(pal, image, wl)
    ELSE IF image.photometric = "Rgb" THEN convertRgb(image)
    ELSE NullImage

(***************************************************************************)
(* QtImageRenderer                                                         *)
(***************************************************************************)
EmptyBuffer == [width |-> 0, height |-> 0, format |-> "RGB24", bytesPerLine |-> 0,
                data |-> <<>>]

\* QImage::convertToFormat(Format_RGB888), one row
rowToRgb888(img, y) ==
    IF img.format = "RGB888" THEN img.rows[y]
    ELSE [k \in 1..(3 * img.width) |-> img.rows[y][((k - 1) \div 3) + 1]]

\* toBuffer (anonymous namespace): RGB24, rows packed at width * 3 bytes
toBuffer(source) ==
    IF source.isNull THEN EmptyBuffer
    ELSE LET bytesPerLine == source.width * 3
         IN [width |-> source.width, height |-> source.height, format |-> "RGB24",
             bytesPerLine |-> bytesPerLine,
             data |-> [n \in 1..(bytesPerLine * source.height) |->
                          rowToRgb888(source, ((n - 1) \div bytesPerLine) + 1)
                                     [((n - 1) % bytesPerLine) + 1]]]

\* a mutation of render: the palette is selected after the conversion
render_SetPaletteAfter(pal, image, palette, windowLevel) ==
    [m_palette |-> setType(pal, palette),
     buffer |-> toBuffer(toQImage(pal, image, windowLevel))]

\* QtImageRenderer::render on the renderer's converter palette `pal`:
\* the palette after the call and the buffer returned
render(pal, image, palette, windowLevel) ==
    LET after == setType(pal, palette)       \* m_converter.setPalette(palette)
    IN [m_palette |-> after, buffer |-> toBuffer(toQImage(after, image, windowLevel))]

(***************************************************************************)
(* Accelerated path (CImageViewer): textures and the fragment shader.      *)
(* The shader computes in floats; the model evaluates it in exact rational *)
(* arithmetic, samples at texel centres, and rounds colour outputs to the  *)
(* nearest 8-bit level (half up), as the conversion of a normalised        *)
(* framebuffer value does.                                                 *)
(***************************************************************************)
\* CImageViewer::hasImage
hasImage(image) == isValid(image)

\* a mutation of uploadTexture: signed 16-bit samples get the unsigned range
uploadTexture_UnsignedRange(image) ==
    LET pixelCount == image.width * image.height
        isRgb      == image.samplesPerPixel = 3
        is16bit    == image.bitsPerSample = 16
    IN IF isRgb
       THEN [isRgb |-> TRUE, valueMin |-> 0, valueMax |-> 255, den |-> 255,
             texels |-> [i \in 0..(pixelCount - 1) |->
                            <<ByteAt(image.pixelData, 3 * i),
                              ByteAt(image.pixelData, 3 * i + 1),
                              ByteAt(image.pixelData, 3 * i + 2)>>]]
       ELSE IF is16bit
       THEN [isRgb |-> FALSE, valueMin |-> 0, valueMax |-> 65535, den |-> 65535,
             texels |-> [i \in 0..(pixelCount - 1) |-> Uint16At(image.pixelData, i)]]
       ELSE [isRgb |-> FALSE, valueMin |-> 0, valueMax |-> 255, den |-> 255,
             texels |-> [i \in 0..(pixelCount - 1) |-> ByteAt(image.pixelData, i)]]

\* CImageViewer::uploadTexture: the sample texture and the value range
\* (m_textureIsRgb, m_textureValueMin, m_textureValueMax).  A texel of a
\* monochrome texture is the normalised value num / den.
uploadTexture(image) ==
    LET pixelCount == image.width * image.height
        isRgb      == image.samplesPerPixel = 3
        is16bit    == image.bitsPerSample = 16
    IN IF isRgb
       THEN [isRgb |-> TRUE, valueMin |-> 0, valueMax |-> 255, den |-> 255,
             texels |-> [i \in 0..(pixelCount - 1) |->
                            <<ByteAt(image.pixelData, 3 * i),
                              ByteAt(image.pixelData, 3 * i + 1),
                              ByteAt(image.pixelData, 3 * i + 2)>>]]
       ELSE IF is16bit /\ image.pixelSigned
       THEN [isRgb |-> FALSE, valueMin |-> -32768, valueMax |-> 32767, den |-> 65535,
             texels |-> [i \in 0..(pixelCount - 1) |->
                            LET v == Int16At(image.pixelData, i)
                            IN IF v = NoSample THEN OutOfBounds ELSE v + 32768]]
       ELSE IF is16bit
       THEN [isRgb |-> FALSE, valueMin |-> 0, valueMax |-> 65535, den |-> 65535,
             texels |-> [i \in 0..(pixelCount - 1) |-> Uint16At(image.pixelData, i)]]
       ELSE [isRgb |-> FALSE, valueMin |-> 0, valueMax |-> 255, den |-> 255,
             texels |-> [i \in 0..(pixelCount - 1) |-> ByteAt(image.pixelData, i)]]

\* m_paletteTexture == nullptr
NoPaletteTexture == <<>>

\* CImageViewer::uploadPalette: no texture for Grayscale, else the 256 x 1 RGB
\* palette texture
uploadPalette(pal) ==
    IF pal.m_type = "Grayscale" THEN NoPaletteTexture
    ELSE [i \in 0..255 |-> mapRgb(pal, i)]

\* round(num / den) to the nearest integer, half up (den > 0)
RoundDiv(num, den) == (2 * num + den) \div (2 * den)

ClampTexel(i) == Max(0, Min(255, i))

\* texture(u_lut, vec2(outv, 0.5)).rgb[ch] for outv = n / d, scaled to 0..255:
\* 256 texels, linear filter, clamp to edge
sampleLut(lutTex, n, d, ch) ==
    LET P  == 512 * n - d               \* texel position (256 outv - 1/2) is P / D
        D  == 2 * d
        i0 == P \div D
        f  == P % D                     \* weight of texel i0 + 1 is f / D
    IN RoundDiv((D - f) * lutTex[ClampTexel(i0)][ch] + f * lutTex[ClampTexel(i0 + 1)][ch], D)

\* kFragmentShaderSource, monochrome branch: the colour written for a texel
\* num / tex.den under the uniforms u_wc, u_ww, u_invert, u_usePalette.
\* tex.valueMax - tex.valueMin equals tex.den for each monochrome format,
\* so mix(u_valueMin, u_valueMax, t) is u_valueMin + num.
FragmentShader(tex, lutTex, u_wc, u_ww, u_invert, u_usePalette, num) ==
    LET raw    == tex.valueMin + ((tex.valueMax - tex.valueMin) \div tex.den) * num
        lower2 == 2 * u_wc - u_ww
        upper2 == 2 * u_wc + u_ww
        \* outv = on / od before inversion
        od     == IF u_ww <= 0 THEN 1 ELSE 2 * u_ww
        on     == IF u_ww <= 0 THEN 0
                  ELSE IF 2 * raw <= lower2 THEN 0
                  ELSE IF 2 * raw >= upper2 THEN od
                  ELSE 2 * raw - lower2
        n      == IF u_invert THEN od - on ELSE on
    IN IF u_usePalette
       THEN <<sampleLut(lutTex, n, od, 1), sampleLut(lutTex, n, od, 2),
              sampleLut(lutTex, n, od, 3)>>
       ELSE <<RoundDiv(255 * n, od), RoundDiv(255 * n, od), RoundDiv(255 * n, od)>>

\* CImageViewer::paintGL on the accelerated path: upload, set the uniforms
\* from the window/level, the image and the converter's palette kind, draw.
\* The frame is the RGB colour at each texel centre.
paintGL(pal, image, wl) ==
    LET tex        == uploadTexture(image)
        lutTex     == uploadPalette(pal)
        usePalette == pal.m_type # "Grayscale"
        invertForMonochrome1 == image.photometric = "Monochrome1"
    IN [width |-> image.width, height |-> image.height,
        u_isColor |-> tex.isRgb,
        u_valueMin |-> tex.valueMin, u_valueMax |-> tex.valueMax,
        pixels |-> [i \in 0..(image.width * image.height - 1) |->
                       IF tex.isRgb THEN tex.texels[i]
                       ELSE IF tex.texels[i] = OutOfBounds
                            THEN <<OutOfBounds, OutOfBounds, OutOfBounds>>
                       ELSE FragmentShader(tex, lutTex, wl.center, wl.width,
                                           invertForMonochrome1, usePalette,
                                           tex.texels[i])]]

(***************************************************************************)
(* CImageViewer.  The record holds the members of the widget, the          *)
(* window/level pair of the CDicomImage it points at, what the OpenGL      *)
(* context fails to provide (gl), the number of diagnostics written to the *)
(* log, the handler that ran last and what the last paint drew.            *)
(***************************************************************************)
\* SWindowLevel (Types.h)
SWindowLevel(c, w) == [center |-> c, width |-> w]

\* m_dicomImage == nullptr
NoDicomImage == [isNullPtr |-> TRUE]

\* m_texture == nullptr
NoTexture == [isNullPtr |-> TRUE]

\* kMinWindowWidth (Types.h)
kMinWindowWidth == 1

\* what a paint leaves on the screen
NoFrame == [kind |-> "none", image |-> NullImage]

PlaceholderFrame == [kind |-> "placeholder", image |-> NullImage]

BlankFrame == [kind |-> "blank", image |-> NullImage]

\* renderThumbnail returned a null image
NoThumbnail == [kind |-> "noThumbnail", image |-> NullImage]

\* the failures an OpenGL context can have: a shader that does not compile,
\* a program that does not link, an object whose create() fails
GlFailures == {"none", "vertexShader", "fragmentShader", "link", "vao", "vbo", "texture"}

\* m_zoom is held in thousandths: 1.0 is ZoomUnit, and a product or quotient
\* of doubles is rounded to the nearest thousandth
ZoomUnit == 1000

\* the widget after construction, on a context with failure `failure`
CImageViewer(failure) ==
    [gl |-> failure,
     m_dicomImage |-> NoDicomImage,
     m_windowLevel |-> SWindowLevel(0, 1),         \* m_dicomImage->m_windowLevel
     m_defaultWindowLevel |-> SWindowLevel(0, 1),  \* m_dicomImage->m_defaultWindowLevel
     loadDefault |-> SWindowLevel(0, 1),           \* the default the loader installed
     m_converter |-> CColorPalette,
     m_shaderProgram |-> FALSE,                    \* m_shaderProgram != nullptr
     m_vao |-> "null", m_vbo |-> "null",           \* "null", "created" or "failed"
     m_texture |-> NoTexture,
     m_paletteTexture |-> NoPaletteTexture,
     m_textureDirty |-> FALSE, m_paletteDirty |-> FALSE, m_verticesDirty |-> FALSE,
     m_displayImage |-> NullImage,
     m_useCpuFallback |-> FALSE,
     m_loggedGlInfo |-> FALSE, m_loggedDrawError |-> FALSE,
     m_zoom |-> ZoomUnit,                          \* double m_zoom = 1.0
     dragCount |-> 0,                              \* mouse moves of a drag
     fallbackWarnings |-> 0,                       \* "Falling back to CPU rendering"
     shaderErrors |-> 0,                           \* compile and link errors
     drawErrors |-> 0,                             \* draw diagnostics
     lastOp |-> "none",
     frame |-> NoFrame]

\* CImageViewer::hasImage
viewerHasImage(v) ==
    IF v.m_dicomImage = NoDicomImage THEN FALSE ELSE hasImage(v.m_dicomImage)

\* CImageViewer::updateDisplayImage
updateDisplayImage(v) ==
    IF ~viewerHasImage(v)
    THEN [v EXCEPT !.m_textureDirty = FALSE, !.m_verticesDirty = FALSE,
                   !.m_displayImage = NullImage, !.m_texture = NoTexture]
    ELSE IF v.m_useCpuFallback
    THEN [v EXCEPT !.m_displayImage =
                       toQImage(v.m_converter, v.m_dicomImage, v.m_windowLevel)]
    ELSE [v EXCEPT !.m_textureDirty = TRUE, !.m_verticesDirty = TRUE]

\* CImageViewer::ensureGlResources
ensureGlResources(v) ==
    LET vertexOk == v.gl # "vertexShader"
        fragOk   == v.gl # "fragmentShader"
        isLinked == vertexOk /\ fragOk /\ v.gl # "link"
        errors   == (IF vertexOk THEN 0 ELSE 1) + (IF fragOk THEN 0 ELSE 1)
                        + (IF vertexOk /\ fragOk /\ ~isLinked THEN 1 ELSE 0)
        create(member, object) ==
            IF member # "null" THEN member
            ELSE IF v.gl = object THEN "failed" ELSE "created"
    IN IF ~v.m_shaderProgram /\ ~isLinked
       THEN [v EXCEPT !.shaderErrors = @ + errors, !.m_useCpuFallback = TRUE]
       ELSE [v EXCEPT !.m_shaderProgram = TRUE,
                      !.m_vao = create(@, "vao"),
                      !.m_vbo = create(@, "vbo")]

\* CImageViewer::initializeGL
initializeGL(v) ==
    LET v1 == ensureGlResources(v)
        v2 == IF ~v1.m_shaderProgram /\ ~v1.m_useCpuFallback
              THEN updateDisplayImage([v1 EXCEPT !.m_useCpuFallback = TRUE,
                                                 !.fallbackWarnings = @ + 1])
              ELSE v1
    IN [v2 EXCEPT !.m_loggedGlInfo = TRUE]

\* CImageViewer::uploadTexture on the widget (the image is valid)
viewerUploadTexture(v) ==
    [v EXCEPT !.m_texture = [isNullPtr |-> FALSE, isCreated |-> v.gl # "texture",
                             data |-> uploadTexture(v.m_dicomImage)],
              !.m_textureDirty = FALSE]

\* CImageViewer::uploadPalette on the widget
viewerUploadPalette(v) ==
    [v EXCEPT !.m_paletteTexture = uploadPalette(v.m_converter),
              !.m_paletteDirty = FALSE]

\* CImageViewer::updateGeometry
updateGeometry(v) ==
    IF v.m_vbo = "null" \/ ~viewerHasImage(v) THEN v
    ELSE [v EXCEPT !.m_verticesDirty = FALSE]

\* the draw diagnostics of paintGL: written once, the paint draws nothing
drawSkipped(v) ==
    [v EXCEPT !.drawErrors = IF v.m_loggedDrawError THEN @ ELSE @ + 1,
              !.m_loggedDrawError = TRUE,
              !.frame = BlankFrame]

\* one draw of the accelerated path (glDrawArrays): the uniforms set from the
\* image's window/level and the converter's palette kind, the sample texture
\* and the palette texture bound
GlDraw(v, kind) ==
    [kind |-> kind, image |-> NullImage,
     u_wc |-> v.m_windowLevel.center, u_ww |-> v.m_windowLevel.width,
     texture |-> v.m_texture.data,
     u_usePalette |-> v.m_converter.m_type # "Grayscale",
     lut |-> v.m_paletteTexture]

\* CImageViewer::paintGL on the widget (a linked program binds)
viewerPaintGL(v) ==
    IF v.m_useCpuFallback
    THEN IF ~viewerHasImage(v) THEN [v EXCEPT !.frame = PlaceholderFrame]
         ELSE LET v1 == IF v.m_displayImage.isNull THEN updateDisplayImage(v) ELSE v
              IN IF v1.m_displayImage.isNull THEN [v1 EXCEPT !.frame = BlankFrame]
                 ELSE [v1 EXCEPT !.frame = [kind |-> "cpu", image |-> v1.m_displayImage]]
    ELSE IF ~viewerHasImage(v) THEN [v EXCEPT !.frame = PlaceholderFrame]
    ELSE LET v1 == ensureGlResources(v)
             v2 == IF v1.m_textureDirty THEN viewerUploadTexture(v1) ELSE v1
             v3 == IF v2.m_paletteDirty THEN viewerUploadPalette(v2) ELSE v2
             v4 == IF v3.m_verticesDirty THEN updateGeometry(v3) ELSE v3
         IN IF ~v4.m_shaderProgram \/ v4.m_texture = NoTexture THEN drawSkipped(v4)
            ELSE IF v4.m_vao # "created" THEN drawSkipped(v4)
            ELSE [v4 EXCEPT !.frame = GlDraw(v4, "gl")]

\* CImageViewer::renderThumbnail with a non-empty size; the widget has a
\* context once initializeGL ran; the image returned is kept in `frame`
renderThumbnail(v) ==
    IF ~viewerHasImage(v) THEN [v EXCEPT !.frame = NoThumbnail]
    ELSE IF v.m_useCpuFallback
    THEN LET v1 == IF v.m_displayImage.isNull THEN updateDisplayImage(v) ELSE v
         IN IF v1.m_displayImage.isNull THEN [v1 EXCEPT !.frame = NoThumbnail]
            ELSE [v1 EXCEPT !.frame = [kind |-> "cpuThumbnail",
                                       image |-> v1.m_displayImage]]
    ELSE IF ~v.m_loggedGlInfo THEN [v EXCEPT !.frame = NoThumbnail]
    ELSE LET v1 == ensureGlResources(v)
             v2 == IF v1.m_textureDirty THEN viewerUploadTexture(v1) ELSE v1
             v3 == IF v2.m_paletteDirty THEN viewerUploadPalette(v2) ELSE v2
             v4 == IF v3.m_verticesDirty THEN updateGeometry(v3) ELSE v3
         IN IF ~v4.m_shaderProgram \/ v4.m_texture = NoTexture
            THEN [v4 EXCEPT !.frame = NoThumbnail]
            ELSE [v4 EXCEPT !.frame = GlDraw(v4, "glThumbnail")]

\* CImageViewer::setDicomImage with an image as the loader left it: its
\* current and default window/level are the pair `loaded`
setDicomImage(v, img, loaded) ==
    LET v1 == [v EXCEPT !.m_dicomImage = img,
                        !.m_windowLevel = loaded,
                        !.m_defaultWindowLevel = loaded,
                        !.loadDefault = loaded]
    IN [updateDisplayImage(v1) EXCEPT !.m_paletteDirty = TRUE]

\* CImageViewer::clearImage
clearImage(v) == updateDisplayImage([v EXCEPT !.m_dicomImage = NoDicomImage])

\* a mutation of imageSetWindowLevel: the default follows the current pair
imageSetWindowLevel_MovesDefault(v, wl) ==
    [v EXCEPT !.m_windowLevel = wl, !.m_defaultWindowLevel = wl]

\* CDicomImage::setWindowLevel on the image the widget points at
imageSetWindowLevel(v, wl) == [v EXCEPT !.m_windowLevel = wl]

\* CDicomImage::resetWindowLevel on the image the widget points at
imageResetWindowLevel(v) == [v EXCEPT !.m_windowLevel = v.m_defaultWindowLevel]

\* a mutation of setWindowLevel: the display image is not converted again
setWindowLevel_NoRefresh(v, wl) ==
    IF v.m_dicomImage = NoDicomImage THEN v
    ELSE imageSetWindowLevel(v, wl)

\* CImageViewer::setWindowLevel
setWindowLevel(v, wl) ==
    IF v.m_dicomImage = NoDicomImage THEN v
    ELSE LET v1 == imageSetWindowLevel(v, wl)
         IN IF v1.m_useCpuFallback THEN updateDisplayImage(v1) ELSE v1

\* CImageViewer::resetWindowLevel
resetWindowLevel(v) ==
    IF v.m_dicomImage = NoDicomImage THEN v
    ELSE LET v1 == imageResetWindowLevel(v)
         IN IF v1.m_useCpuFallback THEN updateDisplayImage(v1) ELSE v1

\* the valueChanged handler of m_centerSlider (setupWindowLevelPanel)
centerSliderChanged(v, value) ==
    IF v.m_dicomImage = NoDicomImage THEN v
    ELSE setWindowLevel(v, SWindowLevel(value, v.m_windowLevel.width))

\* the valueChanged handler of m_widthSlider (setupWindowLevelPanel)
widthSliderChanged(v, value) ==
    IF v.m_dicomImage = NoDicomImage THEN v
    ELSE setWindowLevel(v, SWindowLevel(v.m_windowLevel.center,
                                        Max(kMinWindowWidth, value)))

\* CImageViewer::mouseMoveEvent while a window/level drag is in progress
\* (m_isAdjustingWindowLevel), the mouse moved by (dx, dy)
mouseMoveEvent(v, dx, dy) ==
    IF v.m_dicomImage = NoDicomImage THEN v
    ELSE LET wl == SWindowLevel(v.m_windowLevel.center - dy,
                                Max(kMinWindowWidth, v.m_windowLevel.width + dx))
             v1 == imageSetWindowLevel(v, wl)
         IN IF v1.m_useCpuFallback THEN updateDisplayImage(v1) ELSE v1

\* a mutation of setColorPalette: the palette texture is not marked dirty
setColorPalette_NotDirty(v, type) ==
    LET v1 == [v EXCEPT !.m_converter = setType(@, type)]
    IN IF v1.m_useCpuFallback THEN updateDisplayImage(v1) ELSE v1

\* CImageViewer::setColorPalette
setColorPalette(v, type) ==
    LET v1 == [v EXCEPT !.m_converter = setType(@, type), !.m_paletteDirty = TRUE]
    IN IF v1.m_useCpuFallback THEN updateDisplayImage(v1) ELSE v1

(***************************************************************************)
(* Zoom of the viewer, in thousandths                                      *)
(***************************************************************************)
kMinZoom == 100      \* 0.1

kMaxZoom == 8000     \* 8.0

\* the limits wheelEvent declares for itself
wheelMinZoom == 100      \* constexpr double kMinZoom = 0.1

wheelMaxZoom == 10000    \* constexpr double kMaxZoom = 10.0

\* m_zoom * num / den for the factors kZoomStep = 12/10 and kZoomFactor = 115/100
Scaled(zoom, num, den) == RoundDiv(zoom * num, den)

\* CImageViewer::zoomIn
zoomIn(v) ==
    IF ~viewerHasImage(v) THEN v
    ELSE [v EXCEPT !.m_zoom = Min(kMaxZoom, Scaled(v.m_zoom, 12, 10))]

\* CImageViewer::zoomOut
zoomOut(v) ==
    IF ~viewerHasImage(v) THEN v
    ELSE [v EXCEPT !.m_zoom = Max(kMinZoom, Scaled(v.m_zoom, 10, 12))]

\* CImageViewer::zoomToFit
zoomToFit(v) ==
    IF ~viewerHasImage(v) THEN v ELSE [v EXCEPT !.m_zoom = ZoomUnit]

\* CImageViewer::zoomActualSize, fitScale() being widget / pixels for the
\* tighter of the two directions
zoomActualSize(v, widget, pixels) ==
    IF ~viewerHasImage(v) \/ widget <= 0 THEN v
    ELSE [v EXCEPT !.m_zoom =
             Max(kMinZoom, Min(kMaxZoom, RoundDiv(ZoomUnit * pixels, widget)))]

\* CImageViewer::resetView
resetView(v) == [v EXCEPT !.m_zoom = ZoomUnit]

\* CImageViewer::wheelEvent with angleDelta().y() = delta
wheelEvent(v, delta) ==
    IF v.m_dicomImage = NoDicomImage THEN v
    ELSE IF delta > 0
    THEN [v EXCEPT !.m_zoom = Min(Scaled(v.m_zoom, 115, 100), wheelMaxZoom)]
    ELSE IF delta < 0
    THEN [v EXCEPT !.m_zoom = Max(Scaled(v.m_zoom, 100, 115), wheelMinZoom)]
    ELSE v

(***************************************************************************)
(* Main window: MainViewModel, CThumbnailWidget and the viewer as          *)
(* CMainWindow wires them.  Signals are direct connections, so a slot runs *)
(* inside the emit and an operator below contains the slots its signals    *)
(* reach.  A CDicomImage is an object shared by the view-model entry, the  *)
(* thumbnail list and the viewer: `heap` maps the identity of each live    *)
(* object to its state, and entries, rows and the viewer hold identities.  *)
(* Indices are counted from 0 as in the program; entry i is                *)
(* m_loadedImages[i + 1].                                                  *)
(***************************************************************************)
\* m_imageViewer->m_dicomImage == nullptr
NullId == 0

\* the main window after construction: no images, no selection
CMainWindow ==
    [m_loadedImages |-> <<>>,            \* MainViewModel::m_loadedImages
     m_currentImageIndex |-> -1,         \* MainViewModel::m_currentImageIndex
     heap |-> <<>>,                      \* the live CDicomImage objects
     shown |-> NullId,                   \* m_imageViewer->m_dicomImage
     paletteType |-> "Grayscale",        \* m_imageViewer->paletteType()
     rows |-> <<>>,                      \* the items of m_listWidget, by image
     currentRow |-> -1,                  \* m_listWidget->currentRow()
     loads |-> 0,                        \* files opened so far
     lastOp |-> "none"]

imageCount(a) == Len(a.m_loadedImages)

\* the index names an entry (the range test of currentEntry and entryAt)
IsEntryIndex(a, index) == index >= 0 /\ index < imageCount(a)

\* MainViewModel::updateCurrentWindowLevel
updateCurrentWindowLevel_Ignored(a, wl) == a

updateCurrentWindowLevel(a, wl) ==
    IF ~IsEntryIndex(a, a.m_currentImageIndex) THEN a
    ELSE [a EXCEPT !.m_loadedImages[a.m_currentImageIndex + 1].windowLevel = wl]

\* MainViewModel::updateCurrentPalette; paletteUpdated reaches
\* CMainWindow::applyPaletteState, which redraws a thumbnail only
updateCurrentPalette(a, type) ==
    IF ~IsEntryIndex(a, a.m_currentImageIndex) THEN a
    ELSE [a EXCEPT !.m_loadedImages[a.m_currentImageIndex + 1].palette = type]

\* CMainWindow::onWindowLevelChanged
onWindowLevelChanged(a, wl) == updateCurrentWindowLevel(a, wl)

\* CMainWindow::onPaletteChanged
onPaletteChanged(a, type) == updateCurrentPalette(a, type)

\* CImageViewer::windowLevel of m_imageViewer
viewerWindowLevel(a) ==
    IF a.shown = NullId THEN SWindowLevel(0, 1) ELSE a.heap[a.shown].m_windowLevel

\* CImageViewer::setWindowLevel of m_imageViewer with its windowLevelChanged
viewerSetWindowLevel(a, wl) ==
    IF a.shown = NullId THEN a
    ELSE onWindowLevelChanged([a EXCEPT !.heap[a.shown].m_windowLevel = wl], wl)

\* CImageViewer::resetWindowLevel of m_imageViewer with its windowLevelChanged
viewerResetWindowLevel(a) ==
    IF a.shown = NullId THEN a
    ELSE LET wl == a.heap[a.shown].m_defaultWindowLevel
         IN onWindowLevelChanged([a EXCEPT !.heap[a.shown].m_windowLevel = wl], wl)

\* CImageViewer::setColorPalette of m_imageViewer with its paletteChanged
viewerSetColorPalette(a, type) ==
    onPaletteChanged([a EXCEPT !.paletteType = type], type)

\* CThumbnailWidget::setCurrentIndex under a QSignalBlocker: a row the list
\* does not have leaves it without a current row
setCurrentIndex(a, index) ==
    [a EXCEPT !.currentRow = IF index >= 0 /\ index < Len(a.rows) THEN index ELSE -1]

\* CMainWindow::applyCurrentImage
applyCurrentImage(a) ==
    IF ~IsEntryIndex(a, a.m_currentImageIndex)
    THEN setCurrentIndex([a EXCEPT !.shown = NullId], -1)
    ELSE LET index == a.m_currentImageIndex
             a1 == [a EXCEPT !.shown = a.m_loadedImages[index + 1].image]
             a2 == viewerSetColorPalette(a1, a1.m_loadedImages[index + 1].palette)
             wl == a2.m_loadedImages[index + 1].windowLevel
             a3 == IF wl.width > 0 THEN viewerSetWindowLevel(a2, wl)
                   ELSE viewerResetWindowLevel(a2)
         IN setCurrentIndex(a3, index)

\* the first lines of selectImage and removeImage: the viewer's window/level
\* is stored in the entry m_currentImageIndex names
storeCurrent(a, currentWindowLevel) ==
    IF IsEntryIndex(a, a.m_currentImageIndex)
    THEN [a EXCEPT !.m_loadedImages[a.m_currentImageIndex + 1].windowLevel =
                       currentWindowLevel]
    ELSE a

\* MainViewModel::selectImage; currentImageChanged reaches applyCurrentImage
selectImage(a, index, currentWindowLevel) ==
    LET a1 == storeCurrent(a, currentWindowLevel)
    IN IF ~IsEntryIndex(a1, index)
       THEN applyCurrentImage([a1 EXCEPT !.m_currentImageIndex = -1])
       ELSE IF index = a1.m_currentImageIndex THEN a1
       ELSE applyCurrentImage([a1 EXCEPT !.m_currentImageIndex = index])

\* CMainWindow::onThumbnailSelected
onThumbnailSelected(a, index) ==
    IF index = a.m_currentImageIndex THEN a
    ELSE selectImage(a, index, viewerWindowLevel(a))

\* the sequence without its element at position index (from 0)
RemoveAt(seq, index) ==
    [k \in 1..(Len(seq) - 1) |-> IF k <= index THEN seq[k] ELSE seq[k + 1]]

\* QListWidget::takeItem of the current row in single-selection mode: the
\* list makes the next row current, or the previous one when there is no
\* next, or none, and emits currentRowChanged with that row, numbered as
\* before the removal
RowMadeCurrent(a, index) ==
    IF index + 1 < Len(a.rows) THEN index + 1
    ELSE IF index >= 1 THEN index - 1
    ELSE -1

\* CThumbnailWidget::removeImage; currentRowChanged reaches imageSelected and
\* CMainWindow::onThumbnailSelected while the item is still in the list
thumbnailRemoveImage(a, index) ==
    IF index < 0 \/ index >= Len(a.rows) THEN a
    ELSE LET row == RowMadeCurrent(a, index)
             a1  == IF a.currentRow # index THEN a
                    ELSE onThumbnailSelected([a EXCEPT !.currentRow = row], row)
         IN [a1 EXCEPT !.rows = RemoveAt(@, index),
                       !.currentRow = IF @ > index THEN @ - 1
                                      ELSE IF @ = index THEN -1 ELSE @]

\* CMainWindow::onImageRemoved
onImageRemoved(a, index) == thumbnailRemoveImage(a, index)

\* a mutation of removeImage: the current index does not follow the entries
\* that move down
removeImage_NoShift(a, index, currentWindowLevel) ==
    IF ~IsEntryIndex(a, index) THEN a
    ELSE LET a1 == storeCurrent(a, currentWindowLevel)
             a2 == onImageRemoved([a1 EXCEPT !.m_loadedImages = RemoveAt(@, index)], index)
         IN IF imageCount(a2) = 0
            THEN applyCurrentImage([a2 EXCEPT !.m_currentImageIndex = -1])
            ELSE IF index = a2.m_currentImageIndex
            THEN applyCurrentImage([a2 EXCEPT !.m_currentImageIndex =
                                                 Min(index, imageCount(a2) - 1)])
            ELSE a2

\* MainViewModel::removeImage; imageRemoved reaches onImageRemoved
removeImage(a, index, currentWindowLevel) ==
    IF ~IsEntryIndex(a, index) THEN a
    ELSE LET a1 == storeCurrent(a, currentWindowLevel)
             a2 == onImageRemoved([a1 EXCEPT !.m_loadedImages = RemoveAt(@, index)], index)
         IN IF imageCount(a2) = 0
            THEN applyCurrentImage([a2 EXCEPT !.m_currentImageIndex = -1])
            ELSE IF index = a2.m_currentImageIndex
            THEN applyCurrentImage([a2 EXCEPT !.m_currentImageIndex =
                                                 Min(index, imageCount(a2) - 1)])
            ELSE IF index < a2.m_currentImageIndex
            THEN applyCurrentImage([a2 EXCEPT !.m_currentImageIndex = @ - 1])
            ELSE a2

\* CMainWindow::onThumbnailDeleteRequested
onThumbnailDeleteRequested(a, index) == removeImage(a, index, viewerWindowLevel(a))

\* an identity no live object has
FreshId(a) == CHOOSE id \in 1..(a.loads + 1) : id \notin DOMAIN a.heap

\* CThumbnailWidget::addImage: no row for an image that is not valid or that
\* the converter has no image for (buildThumbnail returns a null image)
addImage(a, id) ==
    IF a.heap[id].photometric \in {"Monochrome1", "Monochrome2", "Rgb"}
    THEN [a EXCEPT !.rows = Append(@, id)]
    ELSE a

\* CMainWindow::onImageAdded
onImageAdded(a, index) ==
    IF ~IsEntryIndex(a, index) THEN a
    ELSE addImage(a, a.m_loadedImages[index + 1].image)

\* MainViewModel::loadFile of a file <<kind, default window/level>>
loadFile(a, file) ==
    IF file[1] = "unreadable" THEN [a EXCEPT !.loads = @ + 1]
    ELSE LET id    == FreshId(a)
             obj   == [photometric |-> file[1],
                       m_windowLevel |-> file[2],          \* resetWindowLevel()
                       m_defaultWindowLevel |-> file[2],
                       touched |-> {}]                     \* values the user set
             entry == [image |-> id, palette |-> "Grayscale", windowLevel |-> file[2]]
             a1    == [a EXCEPT !.loads = @ + 1,
                                !.heap = [i \in DOMAIN a.heap \cup {id} |->
                                             IF i = id THEN obj ELSE a.heap[i]],
                                !.m_loadedImages = Append(@, entry)]
         IN onImageAdded(a1, imageCount(a1) - 1)

RECURSIVE loadEach(_, _)
\* the loop of loadFiles
loadEach(a, files) ==
    IF files = <<>> THEN a ELSE loadEach(loadFile(a, Head(files)), Tail(files))

\* MainViewModel::loadFiles
loadFiles(a, files, currentWindowLevel) ==
    LET startIndex == imageCount(a)
        a1 == loadEach(a, files)
    IN IF imageCount(a1) > startIndex
       THEN selectImage(a1, startIndex, currentWindowLevel)
       ELSE a1

\* CMainWindow::onOpenFileClicked / onFilesDropped
onFilesDropped(a, files) == loadFiles(a, files, viewerWindowLevel(a))

\* a click on row `index` of the list: the row becomes current
\* (currentRowChanged) and itemClicked follows; both reach imageSelected
thumbnailClicked(a, index) ==
    LET a1 == IF a.currentRow = index THEN a
              ELSE onThumbnailSelected([a EXCEPT !.currentRow = index], index)
    IN onThumbnailSelected(a1, index)

(***************************************************************************)
(* Inputs                                                                  *)
(***************************************************************************)
\* largest pixel count of a modelled image
MaxPixels == 2

\* bytes a buffer may hold beyond a size of interest
MaxExtraBytes == 1

\* byte k (from 0) of every modelled buffer
PixelPattern == <<0, 255, 10, 0, 255, 255, 0, 128, 77, 3, 200, 9, 31>>

PatternByte(k) == PixelPattern[(k % Len(PixelPattern)) + 1]

IsMonochrome(pi) == pi \in {"Monochrome1", "Monochrome2"}

\* sample formats the loader stores: 8-bit, 16-bit unsigned, 16-bit signed;
\* the kinds toQImage rejects by kind alone are drawn with 8-bit samples only
SampleFormats(pi) ==
    IF pi \in {"PaletteColor", "Unknown"} THEN {<<8, FALSE>>}
    ELSE IF pi = "Rgb" THEN {<<8, FALSE>>, <<16, FALSE>>}
    ELSE {<<8, FALSE>>, <<16, FALSE>>, <<16, TRUE>>}

ImageDims ==
    {d \in (1..MaxPixels) \X (1..MaxPixels) : d[1] * d[2] <= MaxPixels}
        \cup {<<0, 1>>, <<1, 0>>}

\* buffer lengths: empty, and the lengths around width*height*3 (colour) and
\* around width*height*samplesPerPixel*bytesPerSample
BufferLengths(pi, bits, w, h) ==
    LET spp   == IF IsMonochrome(pi) THEN 1 ELSE 3
        sizes == {w * h * spp * (bits \div 8)}
                    \cup (IF IsMonochrome(pi) THEN {} ELSE {w * h * 3})
    IN {0} \cup {n \in 0..(6 * MaxPixels + MaxExtraBytes) :
                    \E s \in sizes : n - s \in (-1)..MaxExtraBytes}

\* a CDicomImage as the loader leaves it: samplesPerPixel is 1 for the
\* monochrome kinds and 3 otherwise
MakeImage(pi, bits, sgn, w, h, len) ==
    [width |-> w, height |-> h,
     samplesPerPixel |-> IF IsMonochrome(pi) THEN 1 ELSE 3,
     bitsPerSample |-> bits, pixelSigned |-> sgn,
     photometric |-> pi,
     pixelData |-> [k \in 1..len |-> PatternByte(k - 1)]]

Images ==
    UNION {UNION {UNION {{MakeImage(pi, f[1], f[2], d[1], d[2], len) :
                              len \in BufferLengths(pi, f[1], d[1], d[2])} :
                         d \in ImageDims} :
                  f \in SampleFormats(pi)} :
           pi \in EPhotometricInterpretation}

\* CDicomImage after clear(): no pixels, no dimensions, Unknown kind
ClearedImage == MakeImage("Unknown", 8, FALSE, 0, 0, 0)

\* window/levels passed to the converter and to the shader
WindowLevels == {SWindowLevel(128, 256), SWindowLevel(32768, 65536), SWindowLevel(100, 0)}

\* inputs of buildWindowLevelLut: integer-valued centres and widths whose
\* double arithmetic is exact, the three sample domains of convertMonochrome
\* and one domain given in reverse order
LutCenters == {-1000, 0, 100, 128, 255, 32768, 70000}

LutWidths == {-4, 0, 1, 2, 3, 10, 210, 256, 512, 65536, 200000}

LutDomains == {<<0, 255>>, <<0, 65535>>, <<-32768, 32767>>, <<255, 0>>}

\* raw values probed around the ends of the domain and the edges of the window
ProbeRadius == 2

\* distance between the raw values probed across a 16-bit domain
ProbeStride == 4369

\* the raw values whose table entries are kept: every value of an 8-bit
\* domain; for a 16-bit domain the values around the ends of the domain,
\* around lowerBound, center and upperBound, and every ProbeStride-th value
Probes(wl, lo, hi) ==
    IF hi - lo < 256 THEN lo..hi
    ELSE LET anchors == {lo, hi, wl.center,
                         (2 * wl.center - wl.width) \div 2,
                         (2 * wl.center + wl.width) \div 2}
         IN UNION {{v \in (a - ProbeRadius)..(a + ProbeRadius + 1) : lo <= v /\ v <= hi} :
                       a \in anchors}
                \cup {lo + k * ProbeStride : k \in 0..((hi - lo) \div ProbeStride)}

(***************************************************************************)
(* State                                                                   *)
(***************************************************************************)
VARIABLES
    image,            \* the CDicomImage being displayed or converted
    m_palette,        \* CImageConverter::m_palette of the viewer's converter
    call,             \* the last conversion or paint: its arguments and result
    first,            \* the first render call made on the renderer
    rendererPalette,  \* QtImageRenderer::m_converter.m_palette
    lutIn,            \* arguments of a buildWindowLevelLut call
    lutOut,           \* its result: the branch taken and the probed entries
    viewer,           \* the CImageViewer widget: its members, its log, its frame
    app               \* the main window: view model, thumbnail list, viewer

vars == <<image, m_palette, call, first, rendererPalette, lutIn, lutOut, viewer, app>>

NoCall == [op |-> "none"]

NoLut == [branch |-> "none"]

IdleLutIn == [wl |-> SWindowLevel(0, 1), minValue |-> 0, maxValue |-> 0, invert |-> FALSE]

(***************************************************************************)
(* Converter and accelerated path on one image                             *)
(***************************************************************************)
Init ==
    /\ image \in Images
    /\ m_palette = CColorPalette
    /\ call = NoCall
    /\ first = NoCall
    /\ rendererPalette = CColorPalette
    /\ lutIn = IdleLutIn
    /\ lutOut = NoLut
    /\ viewer = CImageViewer("none")
    /\ app = CMainWindow

\* CImageConverter::setPalette
SetPalette(type) ==
    /\ m_palette' = setType(m_palette, type)
    /\ UNCHANGED <<image, call, first, rendererPalette, lutIn, lutOut, viewer, app>>

\* CImageConverter::toQImage(image, wl) with the palette selected on the converter
ToQImage(wl) ==
    /\ call' = [op |-> "toQImage", palette |-> m_palette.m_type, wl |-> wl,
                out |-> toQImage(m_palette, image, wl)]
    /\ UNCHANGED <<image, m_palette, first, rendererPalette, lutIn, lutOut, viewer, app>>

\* CImageViewer::paintGL with an image set: one frame of the accelerated path
PaintGL(wl) ==
    /\ hasImage(image)
    /\ call' = [op |-> "paintGL", palette |-> m_palette.m_type, wl |-> wl,
                out |-> paintGL(m_palette, image, wl)]
    /\ UNCHANGED <<image, m_palette, first, rendererPalette, lutIn, lutOut, viewer, app>>

Next ==
    \/ \E type \in EPaletteType : SetPalette(type)
    \/ \E wl \in WindowLevels : ToQImage(wl)
    \/ \E wl \in WindowLevels : PaintGL(wl)

Spec == Init /\ [][Next]_vars

(***************************************************************************)
(* Snapshot port: a sequence of QtImageRenderer::render calls              *)
(***************************************************************************)
Render(palette, windowLevel) ==
    LET r == render(rendererPalette, image, palette, windowLevel)
    IN /\ rendererPalette' = r.m_palette
       /\ call' = [op |-> "render", palette |-> palette, wl |-> windowLevel,
                   out |-> r.buffer]
       /\ first' = IF first = NoCall THEN call' ELSE first
       /\ UNCHANGED <<image, m_palette, lutIn, lutOut, viewer, app>>

\* palette kinds passed to render: the default, two colour tables, the negative
RenderPalettes == {"Grayscale", "Hot", "Cool", "Inverted"}

NextRender == \E palette \in RenderPalettes, wl \in WindowLevels : Render(palette, wl)

SpecRender == Init /\ [][NextRender]_vars

(***************************************************************************)
(* buildWindowLevelLut on drawn arguments                                  *)
(***************************************************************************)
InitLut ==
    /\ image = ClearedImage
    /\ m_palette = CColorPalette
    /\ call = NoCall
    /\ first = NoCall
    /\ rendererPalette = CColorPalette
    /\ lutIn \in {[wl |-> SWindowLevel(c, w), minValue |-> d[1], maxValue |-> d[2],
                   invert |-> inv] :
                     c \in LutCenters, w \in LutWidths, d \in LutDomains,
                     inv \in BOOLEAN}
    /\ lutOut = NoLut
    /\ viewer = CImageViewer("none")
    /\ app = CMainWindow

BuildLut ==
    LET lut == buildWindowLevelLut(lutIn.wl, lutIn.minValue, lutIn.maxValue, lutIn.invert)
        lo  == Min(lutIn.minValue, lutIn.maxValue)
        hi  == Max(lutIn.minValue, lutIn.maxValue)
    IN /\ lutOut = NoLut
       /\ lutOut' = [branch |-> LutBranch(lutIn.wl),
                     size   |-> hi - lo + 1,
                     table  |-> [v \in Probes(lutIn.wl, lo, hi) |-> lut[v - lo]]]
       /\ UNCHANGED <<image, m_palette, call, first, rendererPalette, lutIn, viewer, app>>

NextLut == BuildLut

SpecLut == InitLut /\ [][NextLut]_vars

(***************************************************************************)
(* The viewer widget under its events                                      *)
(***************************************************************************)
\* most shader diagnostics kept in the log: initializeGL runs again when the
\* context is recreated, and is modelled until the log holds that many
MaxShaderErrors == 2

\* most mouse moves of window/level drags
MaxDrags == 1

\* images handed to the viewer: a monochrome one, a PaletteColor one (valid
\* but not convertible) and one without pixels
ViewerImages ==
    {MakeImage("Monochrome2", 8, FALSE, 1, 2, 2),
     MakeImage("PaletteColor", 8, FALSE, 1, 1, 3),
     MakeImage("Monochrome2", 8, FALSE, 0, 1, 0)}

\* defaults the loader installs (setDefaultWindowLevel)
LoadedWindowLevels == {SWindowLevel(128, 256), SWindowLevel(40, 400)}

\* window/levels passed to CImageViewer::setWindowLevel
ViewerWindowLevels == {SWindowLevel(100, 0)}

\* slider positions, inside the slider ranges of every image
CenterSliderValues == {50}

WidthSliderValues == {1}

\* mouse moves (dx, dy) of a drag
Drags == {<<-300, 7>>}

\* palette kinds chosen in the viewer
ViewerPalettes == {"Grayscale", "Hot"}

InitViewer ==
    /\ image = ClearedImage
    /\ m_palette = CColorPalette
    /\ call = NoCall
    /\ first = NoCall
    /\ rendererPalette = CColorPalette
    /\ lutIn = IdleLutIn
    /\ lutOut = NoLut
    /\ viewer \in {CImageViewer(failure) : failure \in GlFailures}
    /\ app = CMainWindow

\* the widget after the handler `name` ran and left it as `after`; every
\* handler but the two that draw schedules a repaint (update()), so the frame
\* is pending again
Handled(name, after) ==
    [after EXCEPT !.lastOp = name,
                  !.frame = IF name \in {"paintGL", "renderThumbnail"} THEN @ ELSE NoFrame]

\* the variables no viewer event touches
converterVars == <<image, m_palette, call, first, rendererPalette, lutIn, lutOut, app>>

InitializeGL ==
    /\ viewer.shaderErrors < MaxShaderErrors
    /\ viewer' = Handled("initializeGL", initializeGL(viewer))
    /\ UNCHANGED converterVars

\* Qt paints only after initializeGL
Paint ==
    /\ viewer.m_loggedGlInfo
    /\ viewer' = Handled("paintGL", viewerPaintGL(viewer))
    /\ UNCHANGED converterVars

RenderThumbnail ==
    /\ viewer' = Handled("renderThumbnail", renderThumbnail(viewer))
    /\ UNCHANGED converterVars

SetDicomImage(img, loaded) ==
    /\ viewer' = Handled("setDicomImage", setDicomImage(viewer, img, loaded))
    /\ UNCHANGED converterVars

ClearImage ==
    /\ viewer' = Handled("clearImage", clearImage(viewer))
    /\ UNCHANGED converterVars

SetWindowLevel(wl) ==
    /\ viewer' = Handled("setWindowLevel", setWindowLevel(viewer, wl))
    /\ UNCHANGED converterVars

ResetWindowLevel ==
    /\ viewer' = Handled("resetWindowLevel", resetWindowLevel(viewer))
    /\ UNCHANGED converterVars

\* the sliders are shown for valid monochrome images only
SlidersShown ==
    viewerHasImage(viewer) /\ IsMonochrome(viewer.m_dicomImage.photometric)

CenterSliderChanged(value) ==
    /\ SlidersShown
    /\ viewer' = Handled("centerSlider", centerSliderChanged(viewer, value))
    /\ UNCHANGED converterVars

WidthSliderChanged(value) ==
    /\ SlidersShown
    /\ viewer' = Handled("widthSlider", widthSliderChanged(viewer, value))
    /\ UNCHANGED converterVars

MouseMoveEvent(dx, dy) ==
    /\ viewer.m_dicomImage # NoDicomImage
    /\ viewer.dragCount < MaxDrags
    /\ viewer' = Handled("mouseMoveEvent",
                         [mouseMoveEvent(viewer, dx, dy) EXCEPT !.dragCount = @ + 1])
    /\ UNCHANGED converterVars

SetColorPalette(type) ==
    /\ viewer' = Handled("setColorPalette", setColorPalette(viewer, type))
    /\ UNCHANGED converterVars

NextViewer ==
    \/ InitializeGL
    \/ Paint
    \/ RenderThumbnail
    \/ \E img \in ViewerImages, loaded \in LoadedWindowLevels : SetDicomImage(img, loaded)
    \/ ClearImage
    \/ \E wl \in ViewerWindowLevels : SetWindowLevel(wl)
    \/ ResetWindowLevel
    \/ \E value \in CenterSliderValues : CenterSliderChanged(value)
    \/ \E value \in WidthSliderValues : WidthSliderChanged(value)
    \/ \E d \in Drags : MouseMoveEvent(d[1], d[2])
    \/ \E type \in ViewerPalettes : SetColorPalette(type)

SpecViewer == InitViewer /\ [][NextViewer]_vars

(***************************************************************************)
(* Properties of buildWindowLevelLut (checked under SpecLut)               *)
(***************************************************************************)
LutBuilt == lutOut.branch # "none"

LutLo == Min(lutIn.minValue, lutIn.maxValue)

LutHi == Max(lutIn.minValue, lutIn.maxValue)

\* the window [center - width/2, center + width/2] lies inside the domain
WindowInsideDomain ==
    /\ 2 * LutLo <= 2 * lutIn.wl.center - lutIn.wl.width
    /\ 2 * lutIn.wl.center + lutIn.wl.width <= 2 * LutHi

\* the entries at the two ends of the domain are 0 and 255, swapped under invert
EndsSaturated ==
    /\ lutOut.table[LutLo] = (IF lutIn.invert THEN 255 ELSE 0)
    /\ lutOut.table[LutHi] = (IF lutIn.invert THEN 0 ELSE 255)

\* C5 as stated: for every center and every width > 0 the table has 0 at
\* domainMin and 255 at domainMax (255 and 0 when invert is set).
C5_Original == (LutBuilt /\ lutIn.wl.width > 0) => EndsSaturated

\* C5 as amended: for width > 0 and a window that lies inside the domain
\* (domainMin <= center - width/2 and center + width/2 <= domainMax) the table
\* has 0 at domainMin and 255 at domainMax, and 255 and 0 when invert is set.
C5_BoundarySaturation ==
    (LutBuilt /\ lutIn.wl.width > 0 /\ WindowInsideDomain) => EndsSaturated

C5_Witness ==
    /\ LutBuilt /\ lutIn.wl.width > 0 /\ WindowInsideDomain /\ lutIn.invert
    /\ lutOut.table[LutLo] = 255 /\ lutOut.table[LutHi] = 0

\* the probed raw values that follow u: its successor when every value of
\* the domain is probed, every larger probe otherwise
LaterProbes(u) ==
    IF lutOut.size <= 256 THEN {u + 1} \cap DOMAIN lutOut.table
    ELSE {v \in DOMAIN lutOut.table : v > u}

\* C6: for width > 0 the table is non-decreasing in the raw value when invert
\* is false and non-increasing when invert is true.
C6_Monotone ==
    (LutBuilt /\ lutIn.wl.width > 0) =>
        \A u \in DOMAIN lutOut.table : \A v \in LaterProbes(u) :
            IF lutIn.invert THEN lutOut.table[u] >= lutOut.table[v]
            ELSE lutOut.table[u] <= lutOut.table[v]

C6_Witness ==
    /\ LutBuilt /\ lutIn.wl.width > 0 /\ lutIn.invert
    /\ \E u \in DOMAIN lutOut.table : \E v \in LaterProbes(u) :
          /\ lutOut.table[u] > lutOut.table[v]
          /\ lutOut.table[v] \notin {0, 255}

\* C7: with width <= 0 every entry is 0, whatever the center, the domain and
\* the invert flag, and the table is built by the branch that returns before
\* the division by the width.
C7_BlankTable ==
    (LutBuilt /\ lutIn.wl.width <= 0) =>
        /\ lutOut.branch = "blank"
        /\ \A v \in DOMAIN lutOut.table : lutOut.table[v] = 0

C7_Witness ==
    /\ LutBuilt /\ lutIn.wl.width = 0 /\ lutIn.invert
    /\ lutIn.minValue = -32768
    /\ lutOut.table[lutIn.wl.center] = 0

\* C8 as stated: for the domain [0,65535] with center 32768 and width 65536,
\* lut[0] = 0, lut[65535] = 255 and lut[32768] is within 1 of 128.
C8_FullRange16 ==
    (/\ LutBuilt
     /\ lutIn = [wl |-> SWindowLevel(32768, 65536), minValue |-> 0,
                 maxValue |-> 65535, invert |-> FALSE])
        => /\ lutOut.table[0] = 0
           /\ lutOut.table[65535] = 255
           /\ lutOut.table[32768] \in 127..129

(***************************************************************************)
(* Properties of the snapshot port (checked under SpecRender)              *)
(***************************************************************************)
\* C4: render returns byte-identical buffers for identical arguments,
\* whatever render calls were made on the same renderer in between: the
\* latest call returns what the first call returned whenever it is made with
\* the first call's palette and window/level (on the same image).
C4_RenderPure ==
    (/\ first # NoCall
     /\ call.palette = first.palette
     /\ call.wl = first.wl) => call.out = first.out

\* the latest call repeats the first call's arguments on a monochrome image
\* that the palette colours, so that another palette gives another buffer
C4_Witness ==
    /\ first # NoCall
    /\ call.palette = first.palette /\ call.wl = first.wl
    /\ call.palette = "Hot"
    /\ rendererPalette.m_type = "Hot"
    /\ call.out.data # <<>>
    /\ call.out # render(CColorPalette, image, "Cool", call.wl).buffer
    /\ IsMonochrome(image.photometric)

(***************************************************************************)
(* Properties of the converter (checked under Spec)                        *)
(***************************************************************************)
Converted == call.op = "toQImage"

\* bytes [3*width*(y-1), 3*width*y) of the buffer
PackedRgbRow(y) == SubSeq(image.pixelData, 3 * image.width * (y - 1) + 1,
                          3 * image.width * y)

\* bytes of source row y: width * samplesPerPixel samples of bitsPerSample bits
SourceRow(y) ==
    LET rowLen == image.width * image.samplesPerPixel * (image.bitsPerSample \div 8)
    IN SubSeq(image.pixelData, rowLen * (y - 1) + 1, rowLen * y)

\* C2 as stated: for every image with samplesPerPixel = 3, toQImage returns an
\* Rgb24 image whose rows are a verbatim copy of the source rows, whatever the
\* window/level and the palette kind.
C2_Original ==
    (Converted /\ image.samplesPerPixel = 3) =>
        /\ ~call.out.isNull
        /\ call.out.format = "RGB888"
        /\ \A y \in 1..image.height : call.out.rows[y] = SourceRow(y)

\* C2 as amended: for every valid image of photometric kind Rgb whose buffer
\* holds at least width*height*3 bytes, toQImage returns an Rgb24 image of the
\* image's width and height whose row y is a verbatim copy of the bytes
\* [3*width*y, 3*width*(y+1)) of the buffer, whatever the window/level and
\* the palette kind.
C2_RgbBypass ==
    (/\ Converted
     /\ isValid(image) /\ image.photometric = "Rgb"
     /\ Len(image.pixelData) >= image.width * image.height * 3) =>
        /\ ~call.out.isNull
        /\ call.out.format = "RGB888"
        /\ call.out.width = image.width /\ call.out.height = image.height
        /\ \A y \in 1..image.height : call.out.rows[y] = PackedRgbRow(y)

C2_Witness ==
    /\ Converted
    /\ isValid(image) /\ image.photometric = "Rgb" /\ image.height = 2
    /\ Len(image.pixelData) >= image.width * image.height * 3
    /\ call.palette = "Hot" /\ call.wl.width = 0
    /\ call.out.rows[2] = PackedRgbRow(2)
    /\ call.out.rows[2] # call.out.rows[1]

\* the buffer size the data model implies:
\* width * height * samplesPerPixel * ceil(bits / 8)
ImpliedSize == image.width * image.height * image.samplesPerPixel
                   * (image.bitsPerSample \div 8)

\* no byte of the result comes from a read past the end of the buffer
NoOutOfBoundsRead ==
    call.out.isNull \/
        \A y \in 1..call.out.height : \A k \in DOMAIN call.out.rows[y] :
            call.out.rows[y][k] # OutOfBounds

\* C3: toQImage returns a null image, and reads no pixel data out of bounds,
\* when the image is invalid, its kind is PaletteColor, or its buffer is
\* smaller than the size its dimensions and bit depth imply; in every other
\* case it returns a non-null image of the image's width and height.
C3_NullOnBadInput ==
    Converted =>
        /\ NoOutOfBoundsRead
        /\ IF \/ ~isValid(image)
              \/ image.photometric = "PaletteColor"
              \/ Len(image.pixelData) < ImpliedSize
           THEN call.out.isNull
           ELSE /\ ~call.out.isNull
                /\ call.out.width = image.width
                /\ call.out.height = image.height

\* C9: an 8-bit Monochrome1 image converted with center 128 and width 256
\* shows a raw sample 0 as 255 and a raw sample 255 as 0.
C9_InvertedEnds ==
    (/\ Converted /\ call.palette = "Grayscale"
     /\ image.photometric = "Monochrome1" /\ image.bitsPerSample = 8
     /\ call.wl = SWindowLevel(128, 256)
     /\ ~call.out.isNull) =>
        \A y \in 1..image.height : \A x \in 1..image.width :
            LET raw == image.pixelData[(y - 1) * image.width + x]
            IN /\ raw = 0 => call.out.rows[y][x] = 255
               /\ raw = 255 => call.out.rows[y][x] = 0

\* the Gray8 image toQImage writes for the same image and window/level when
\* the Grayscale kind is selected
GrayOfCall == toQImage(CColorPalette, image, call.wl)

\* C10: for a monochrome image and a non-Grayscale palette kind P, the RGB
\* value toQImage writes at a pixel is P's table entry at the Gray8 value
\* toQImage writes at that pixel when Grayscale is selected.
C10_PaletteKeepsIndex ==
    (/\ Converted /\ call.palette # "Grayscale"
     /\ IsMonochrome(image.photometric)
     /\ ~call.out.isNull) =>
        /\ call.out.format = "RGB888"
        /\ GrayOfCall.format = "Grayscale8"
        /\ \A y \in 1..image.height : \A x \in 1..image.width : \A ch \in 1..3 :
              call.out.rows[y][3 * (x - 1) + ch]
                  = PaletteTable[call.palette][GrayOfCall.rows[y][x]][ch]

C10_Witness ==
    /\ Converted /\ call.palette = "Hot"
    /\ image.photometric = "Monochrome1" /\ image.bitsPerSample = 16
    /\ ~call.out.isNull
    /\ call.wl.width > 0
    /\ \E x \in 1..image.width :
          /\ GrayOfCall.rows[1][x] \notin {0, 255}
          /\ call.out.rows[1][3 * (x - 1) + 1] # call.out.rows[1][3 * (x - 1) + 3]

(***************************************************************************)
(* CPU path against accelerated path (checked under Spec)                  *)
(***************************************************************************)
Painted == call.op = "paintGL"

\* the RGB value toQImage produces for pixel i (from 0) with the palette kind
\* and the window/level of the paint
CpuPixel(i) ==
    LET img == toQImage([m_type |-> call.palette, m_lut |-> PaletteTable[call.palette]],
                        image, call.wl)
        y == (i \div image.width) + 1
        x == (i % image.width) + 1
    IN IF img.format = "Grayscale8"
       THEN <<img.rows[y][x], img.rows[y][x], img.rows[y][x]>>
       ELSE <<img.rows[y][3 * (x - 1) + 1], img.rows[y][3 * (x - 1) + 2],
              img.rows[y][3 * (x - 1) + 3]>>

WithinOne(a, b) == a - b \in (-1)..1

\* the image is monochrome and large enough for both paths to read it
MonochromeReadable ==
    /\ IsMonochrome(image.photometric)
    /\ Len(image.pixelData) >= image.width * image.height * (image.bitsPerSample \div 8)

\* C1: for every monochrome image, center, width and palette kind, each
\* channel of the frame the accelerated path draws differs by at most 1 from
\* the value toQImage produces for the same pixel.
C1_PathsAgree ==
    (Painted /\ MonochromeReadable) =>
        \A i \in DOMAIN call.out.pixels : \A ch \in 1..3 :
            WithinOne(call.out.pixels[i][ch], CpuPixel(i)[ch])

(***************************************************************************)
(* Grayscale identity and the palette cache                                *)
(***************************************************************************)
\* the window/level table value of pixel i (from 0) of the image, for the
\* window/level of the latest call
TableValueAt(i) ==
    buildWindowLevelLut(call.wl, minValueOf(image), maxValueOf(image),
                        image.photometric = "Monochrome1")
        [pixelValueAt(image, i) - minValueOf(image)]

\* C11 (checked under SpecRender): with the Grayscale kind selected mapRgb(v)
\* is (v,v,v) for every v in 0..255, and render with the Grayscale kind
\* returns R = G = B = the window/level table value at every pixel of a
\* monochrome image.
C11_GrayscaleIdentity ==
    /\ rendererPalette.m_type = "Grayscale" =>
          \A v \in 0..255 : mapRgb(rendererPalette, v) = <<v, v, v>>
    /\ (/\ call.op = "render" /\ call.palette = "Grayscale"
        /\ IsMonochrome(image.photometric)
        /\ call.out.data # <<>>) =>
          \A i \in 0..(image.width * image.height - 1) : \A ch \in 1..3 :
              call.out.data[3 * i + ch] = TableValueAt(i)

\* Grayscale is rendered after another kind was, on a 16-bit Monochrome1
\* image with a pixel inside the window
C11_Witness ==
    /\ call.op = "render" /\ call.palette = "Grayscale"
    /\ first.palette = "Hot"
    /\ image.photometric = "Monochrome1" /\ image.bitsPerSample = 16
    /\ call.wl.width > 0
    /\ call.out.data # <<>>
    /\ \E n \in DOMAIN call.out.data : call.out.data[n] \notin {0, 255}
    /\ mapRgb(rendererPalette, 77) = <<77, 77, 77>>

\* C12 (checked under Spec): after any sequence of setType calls the cached
\* table is the table of a freshly constructed palette of the current kind.
C12_CacheMatchesKind ==
    m_palette = CColorPaletteOf(m_palette.m_type)

\* the palette was switched to a kind whose table differs from the default's
C12_Witness ==
    /\ m_palette.m_type = "Ocean"
    /\ m_palette.m_lut # CColorPalette.m_lut
    /\ call.op = "toQImage" /\ call.palette = "Copper"

(***************************************************************************)
(* The shader's blank and the table's reference function                   *)
(***************************************************************************)
\* C18 (checked under Spec): for width <= 0 the accelerated path draws the
\* blank of the CPU table: with no palette, every pixel of a monochrome image
\* is drawn 0, for Monochrome2 and for Monochrome1 alike.
C18_ShaderBlank ==
    (/\ Painted /\ MonochromeReadable
     /\ call.wl.width <= 0 /\ call.palette = "Grayscale") =>
        \A i \in DOMAIN call.out.pixels : call.out.pixels[i] = <<0, 0, 0>>

\* entry is the truncation of (v - (center - width/2)) * 255 / width: the
\* integer k with k <= (v - lower) * 255 / width < k + 1, in doubled terms
IsTruncatedScale(entry, v) ==
    LET x2 == (2 * v - (2 * lutIn.wl.center - lutIn.wl.width)) * 255
        w2 == 2 * lutIn.wl.width
    IN entry * w2 <= x2 /\ x2 < (entry + 1) * w2

\* C19 (checked under SpecLut): for width > 0 the non-inverted entry of every
\* raw value v is 0 if v <= center - width/2, 255 if v >= center + width/2,
\* and otherwise the truncation of (v - (center - width/2)) * 255 / width.
C19_ReferenceFunction ==
    (LutBuilt /\ lutIn.wl.width > 0 /\ ~lutIn.invert) =>
        \A v \in DOMAIN lutOut.table :
            IF 2 * v <= 2 * lutIn.wl.center - lutIn.wl.width
            THEN lutOut.table[v] = 0
            ELSE IF 2 * v >= 2 * lutIn.wl.center + lutIn.wl.width
            THEN lutOut.table[v] = 255
            ELSE IsTruncatedScale(lutOut.table[v], v)

\* C20 (checked under SpecLut): for width > 0 the entry built with invert set
\* is 255 minus the entry built without it for the same center, width and
\* domain, so that values outside the window invert to exactly 255 and 0.
C20_InvertAfterClamp ==
    (LutBuilt /\ lutIn.wl.width > 0 /\ lutIn.invert) =>
        \A v \in DOMAIN lutOut.table :
            /\ lutOut.table[v]
                   = 255 - buildWindowLevelLut(lutIn.wl, lutIn.minValue,
                                               lutIn.maxValue, FALSE)[v - LutLo]
            /\ 2 * v <= 2 * lutIn.wl.center - lutIn.wl.width => lutOut.table[v] = 255
            /\ 2 * v >= 2 * lutIn.wl.center + lutIn.wl.width => lutOut.table[v] = 0

\* an inverted table with entries below, inside and above the window
C20_Witness ==
    /\ LutBuilt /\ lutIn.wl.width > 0 /\ lutIn.invert
    /\ \E u, v, x \in DOMAIN lutOut.table :
          /\ 2 * u < 2 * lutIn.wl.center - lutIn.wl.width /\ lutOut.table[u] = 255
          /\ 2 * x > 2 * lutIn.wl.center + lutIn.wl.width /\ lutOut.table[x] = 0
          /\ lutOut.table[v] \notin {0, 255}

(***************************************************************************)
(* Properties of the viewer widget (checked under SpecViewer)              *)
(***************************************************************************)
ImageLoaded == viewer.m_dicomImage # NoDicomImage

\* C13: in every reachable state the current window width of a loaded image
\* is at least kMinWindowWidth, whichever mutator set it.
C13_MinimumWidth ==
    ImageLoaded => viewer.m_windowLevel.width >= kMinWindowWidth

\* C14: no window/level update changes the default the loader installed, and
\* resetWindowLevel sets the current pair to it: after a reset the current
\* center and width are the load-time ones.
C14_ResetRestoresLoadDefault ==
    ImageLoaded =>
        /\ viewer.m_defaultWindowLevel = viewer.loadDefault
        /\ viewer.lastOp = "resetWindowLevel" =>
              viewer.m_windowLevel = viewer.loadDefault

\* a reset on an image whose window/level a drag had moved
C14_Witness ==
    /\ ImageLoaded
    /\ viewer.lastOp = "resetWindowLevel"
    /\ viewer.dragCount > 0
    /\ viewer.loadDefault = SWindowLevel(40, 400)
    /\ viewer.m_windowLevel = SWindowLevel(40, 400)

\* what the converter gives for the viewer's image, palette and window/level
ConvertedNow ==
    toQImage(viewer.m_converter, viewer.m_dicomImage, viewer.m_windowLevel)

\* C15: when the accelerated path cannot be initialised (a shader does not
\* compile, the program does not link, or the vertex array, the vertex buffer
\* or the texture cannot be created) the viewer is in CPU fallback, and in
\* fallback every window/level, palette or image change re-runs the
\* converter, so that the next paint draws the image of the latest parameters.
C15_FallbackOnFailure ==
    /\ (viewer.m_loggedGlInfo
            /\ viewer.gl \in {"vertexShader", "fragmentShader", "link", "vao", "vbo"})
          => viewer.m_useCpuFallback
    /\ (viewer.lastOp = "paintGL" /\ viewerHasImage(viewer) /\ viewer.gl = "texture")
          => viewer.m_useCpuFallback
    /\ (/\ viewer.m_useCpuFallback /\ viewerHasImage(viewer)
        /\ viewer.lastOp \notin {"none", "initializeGL", "paintGL"})
          => viewer.m_displayImage = ConvertedNow
    /\ (viewer.m_useCpuFallback /\ viewerHasImage(viewer) /\ viewer.lastOp = "paintGL")
          => viewer.frame.image = ConvertedNow

\* C16: once the viewer is in CPU fallback the fallback diagnostic has been
\* logged exactly once, whatever initializeGL, paint or update events followed.
C16_LoggedOnce ==
    viewer.m_useCpuFallback => viewer.fallbackWarnings = 1

\* C17: in CPU fallback an update whose conversion returns a null image
\* leaves the display image as it was before the update.
C17_FailedUpdateKeepsFrame ==
    [][(/\ viewer.m_useCpuFallback
        /\ ~viewer.m_displayImage.isNull
        /\ viewerHasImage(viewer')
        /\ toQImage(viewer'.m_converter, viewer'.m_dicomImage,
                    viewer'.m_windowLevel).isNull)
          => viewer'.m_displayImage = viewer.m_displayImage]_vars

(***************************************************************************)
(* The two paths on one image (checked under Spec)                         *)
(***************************************************************************)
Drawn == call.op = "paintGL"

\* C21: for every image the viewer accepts, the accelerated path treats the
\* image as an RGB source (samplesPerPixel = 3, u_isColor) exactly when the
\* converter does (photometric kind Rgb), and the converter has an image for
\* what the accelerated path draws as RGB.
C21_SameRgbTest ==
    (Drawn /\ hasImage(image)) =>
        /\ call.out.u_isColor <=> image.photometric = "Rgb"
        /\ call.out.u_isColor =>
              toQImage(m_palette, image, call.wl) = convertRgb(image)

\* the three sample domains of convertMonochrome
SampleDomain(bitsPerSample, pixelSigned) ==
    IF bitsPerSample = 16
    THEN (IF pixelSigned THEN <<-32768, 32767>> ELSE <<0, 65535>>)
    ELSE <<0, 255>>

\* C22: for every monochrome image the pair (u_valueMin, u_valueMax) the
\* shader receives equals the pair convertMonochrome passes to
\* buildWindowLevelLut: [0,255] for 8-bit, [0,65535] for 16-bit unsigned and
\* [-32768,32767] for 16-bit signed samples.
C22_SameDomain ==
    (Drawn /\ IsMonochrome(image.photometric)) =>
        /\ <<call.out.u_valueMin, call.out.u_valueMax>>
              = <<minValueOf(image), maxValueOf(image)>>
        /\ <<call.out.u_valueMin, call.out.u_valueMax>>
              = SampleDomain(image.bitsPerSample, image.pixelSigned)

\* a paint of a signed 16-bit monochrome image
C22_Witness ==
    /\ Drawn /\ IsMonochrome(image.photometric)
    /\ image.bitsPerSample = 16 /\ image.pixelSigned
    /\ call.out.u_valueMin = -32768 /\ call.out.u_valueMax = 32767

(***************************************************************************)
(* Draws of the viewer widget (checked under SpecViewer)                   *)
(***************************************************************************)
\* the handlers that update the window/level of the image
WindowLevelOps ==
    {"setWindowLevel", "resetWindowLevel", "centerSlider", "widthSlider", "mouseMoveEvent"}

\* C23: only the latest window/level update matters: whatever updates
\* (setWindowLevel, sliders, drag, reset) came before it, a paint of the
\* accelerated path passes the image's current center and width to the
\* shader, and a paint in CPU fallback draws the conversion of the image
\* under its current window/level.
C23_LatestWindowLevel ==
    /\ viewer.frame.kind = "gl" =>
          /\ viewer.frame.u_wc = viewer.m_windowLevel.center
          /\ viewer.frame.u_ww = viewer.m_windowLevel.width
    /\ viewer.frame.kind = "cpu" => viewer.frame.image = ConvertedNow

\* a paint in CPU fallback after a setWindowLevel, a slider move and a drag
C23_Witness ==
    /\ viewer.frame.kind = "cpu"
    /\ viewer.lastOp = "paintGL"
    /\ viewer.dragCount > 0
    /\ viewer.m_windowLevel = SWindowLevel(43, 1)
    /\ ~viewer.frame.image.isNull

\* C24: at every draw of the accelerated path (paintGL or renderThumbnail)
\* the sample texture holds the upload of the image currently set and the
\* palette texture is the one of the palette kind currently selected; a
\* window/level update changes neither the sample texture nor its dirty flag.
C24_TexturesCurrent ==
    /\ [](viewer.frame.kind \in {"gl", "glThumbnail"} =>
            /\ viewer.frame.texture = uploadTexture(viewer.m_dicomImage)
            /\ viewer.frame.lut = uploadPalette(CColorPaletteOf(viewer.m_converter.m_type)))
    /\ [][viewer'.lastOp \in WindowLevelOps =>
            /\ viewer'.m_texture = viewer.m_texture
            /\ viewer'.m_textureDirty = viewer.m_textureDirty]_vars

\* a paint with the Hot palette texture after a drag
C24_Witness ==
    /\ viewer.frame.kind = "gl"
    /\ viewer.m_converter.m_type = "Hot"
    /\ viewer.frame.lut # NoPaletteTexture
    /\ viewer.frame.texture.texels = [i \in 0..1 |-> PatternByte(i)]
    /\ viewer.dragCount > 0

(***************************************************************************)
(* Specification SpecApp: the main window under the user's operations      *)
(***************************************************************************)
\* files opened in one run
MaxLoads == 2

\* the window/level values the loader installs and the one the user sets
DefaultWindowLevels == {SWindowLevel(128, 256), SWindowLevel(40, 400)}

UserWindowLevel == SWindowLevel(50, 1)

\* the files the user can open: <<what the file holds, its window/level>>
Files ==
    {<<"unreadable", SWindowLevel(0, 1)>>, <<"PaletteColor", SWindowLevel(128, 256)>>}
        \cup ({"Monochrome2"} \X DefaultWindowLevels)

\* one file, or two opened together
FileLists == {<<f>> : f \in Files} \cup {<<f, g>> : f \in Files, g \in Files}

\* the objects some shared_ptr still holds
Referenced(a) ==
    {a.m_loadedImages[k].image : k \in 1..Len(a.m_loadedImages)}
        \cup {a.rows[k] : k \in 1..Len(a.rows)} \cup ({a.shown} \ {NullId})

\* the end of a handler: objects nobody holds are destroyed
Completed(a, name) ==
    [a EXCEPT !.heap = [id \in Referenced(a) |-> a.heap[id]], !.lastOp = name]

restVars == <<image, m_palette, call, first, rendererPalette, lutIn, lutOut, viewer>>

InitApp ==
    /\ image = ClearedImage
    /\ m_palette = CColorPalette
    /\ call = NoCall
    /\ first = NoCall
    /\ rendererPalette = CColorPalette
    /\ lutIn = IdleLutIn
    /\ lutOut = NoLut
    /\ viewer = CImageViewer("none")
    /\ app = CMainWindow

\* File > Open or a drop of files
OpenFiles ==
    \E files \in FileLists :
        /\ app.loads + Len(files) <= MaxLoads
        /\ app' = Completed(onFilesDropped(app, files), "loadFiles")
        /\ UNCHANGED restVars

\* a click on a thumbnail
ThumbnailClicked ==
    \E index \in 0..(Len(app.rows) - 1) :
        /\ app' = Completed(thumbnailClicked(app, index), "selectImage")
        /\ UNCHANGED restVars

\* a click on the delete button of a thumbnail
ThumbnailDeleteRequested ==
    \E index \in 0..(Len(app.rows) - 1) :
        /\ app' = Completed(onThumbnailDeleteRequested(app, index), "removeImage")
        /\ UNCHANGED restVars

\* the user moves a slider or drags in the viewer
UserSetWindowLevel ==
    /\ app.shown # NullId
    /\ app' = Completed(viewerSetWindowLevel(
                  [app EXCEPT !.heap[app.shown].touched = @ \cup {UserWindowLevel}],
                  UserWindowLevel), "setWindowLevel")
    /\ UNCHANGED restVars

\* View > Reset Window/Level
UserResetWindowLevel ==
    /\ app.shown # NullId
    /\ app' = Completed(viewerResetWindowLevel(app), "resetWindowLevel")
    /\ UNCHANGED restVars

\* a palette chosen in the menu or the HUD
UserSetColorPalette ==
    \E type \in {"Grayscale", "Hot"} :
        /\ type # app.paletteType
        /\ app' = Completed(viewerSetColorPalette(app, type), "setColorPalette")
        /\ UNCHANGED restVars

NextApp ==
    \/ OpenFiles
    \/ ThumbnailClicked
    \/ ThumbnailDeleteRequested
    \/ UserSetWindowLevel
    \/ UserResetWindowLevel
    \/ UserSetColorPalette

SpecApp == InitApp /\ [][NextApp]_vars

(***************************************************************************)
(* Properties of the main window (checked under SpecApp)                   *)
(***************************************************************************)
\* entry i of the view model, i counted from 0
entryAt(a, index) == a.m_loadedImages[index + 1]

\* C25: row i of the thumbnail list and entry i of the view model are the
\* same image: the two lists have the same length and the same images in
\* the same order after any sequence of loads and removals.
C25_RowsMatchEntries ==
    /\ Len(app.rows) = imageCount(app)
    /\ \A i \in 0..(imageCount(app) - 1) :
           i < Len(app.rows) => app.rows[i + 1] = entryAt(app, i).image

\* C26: selecting and removing never write the window/level of one image
\* into the entry of another: the window/level stored in an entry is the
\* default its image was loaded with or a value set while that image was
\* displayed.
C26_OwnWindowLevel ==
    \A i \in 0..(imageCount(app) - 1) :
        LET obj == app.heap[entryAt(app, i).image]
        IN entryAt(app, i).windowLevel \in {obj.m_defaultWindowLevel} \cup obj.touched

\* C27: whenever an image is current and no handler is running, the current
\* entry of the view model holds the palette kind and the window/level the
\* viewer displays.
C27_EntryMatchesViewer ==
    IsEntryIndex(app, app.m_currentImageIndex) =>
        /\ entryAt(app, app.m_currentImageIndex).palette = app.paletteType
        /\ entryAt(app, app.m_currentImageIndex).windowLevel = viewerWindowLevel(app)

\* the viewer shows a second image under the Hot palette with the window/level
\* the user set, and its entry holds both
C27_Witness ==
    /\ app.m_currentImageIndex = 1
    /\ app.shown = entryAt(app, 1).image
    /\ app.paletteType = "Hot"
    /\ viewerWindowLevel(app) = UserWindowLevel
    /\ entryAt(app, 1).palette = "Hot"
    /\ entryAt(app, 1).windowLevel = UserWindowLevel
    /\ entryAt(app, 0).windowLevel # UserWindowLevel

\* C28: after every completed operation of the view model the current index
\* is -1 or names an entry, and it is -1 when there are no entries.
C28_CurrentIndexValid ==
    /\ app.m_currentImageIndex = -1 \/ IsEntryIndex(app, app.m_currentImageIndex)
    /\ imageCount(app) = 0 => app.m_currentImageIndex = -1

\* an entry below the current one was removed and the current index followed
C28_Witness ==
    /\ app.lastOp = "removeImage"
    /\ app.loads = 2
    /\ imageCount(app) = 1
    /\ app.m_currentImageIndex = 0
    /\ app.shown = entryAt(app, 0).image
    /\ app.heap[app.shown].m_defaultWindowLevel = SWindowLevel(40, 400)
    /\ app.heap[app.shown].touched # {}

(***************************************************************************)
(* Specification SpecZoom: the zoom of the viewer under the user's         *)
(* operations                                                              *)
(***************************************************************************)
\* widget and image extents (in pixels) of the tighter direction of fitScale
FitScales == {<<800, 40>>, <<800, 2000>>, <<40, 2000>>, <<0, 512>>}

\* the image whose view is zoomed
ZoomedImage == MakeImage("Monochrome2", 8, FALSE, 1, 2, 2)

\* angleDelta().y() of one wheel notch, either way, and of a horizontal scroll
WheelDeltas == {120, -120, 0}

InitZoom ==
    /\ image = ClearedImage
    /\ m_palette = CColorPalette
    /\ call = NoCall
    /\ first = NoCall
    /\ rendererPalette = CColorPalette
    /\ lutIn = IdleLutIn
    /\ lutOut = NoLut
    /\ viewer = CImageViewer("none")
    /\ app = CMainWindow

ZoomIn ==
    /\ viewer' = Handled("zoomIn", zoomIn(viewer))
    /\ UNCHANGED converterVars

ZoomOut ==
    /\ viewer' = Handled("zoomOut", zoomOut(viewer))
    /\ UNCHANGED converterVars

ZoomToFit ==
    /\ viewer' = Handled("zoomToFit", zoomToFit(viewer))
    /\ UNCHANGED converterVars

ZoomActualSize(widget, pixels) ==
    /\ viewer' = Handled("zoomActualSize", zoomActualSize(viewer, widget, pixels))
    /\ UNCHANGED converterVars

ResetView ==
    /\ viewer' = Handled("resetView", resetView(viewer))
    /\ UNCHANGED converterVars

WheelEvent(delta) ==
    /\ viewer' = Handled("wheelEvent", wheelEvent(viewer, delta))
    /\ UNCHANGED converterVars

NextZoom ==
    \/ SetDicomImage(ZoomedImage, SWindowLevel(128, 256))
    \/ ClearImage
    \/ ZoomIn
    \/ ZoomOut
    \/ ZoomToFit
    \/ \E f \in FitScales : ZoomActualSize(f[1], f[2])
    \/ ResetView
    \/ \E delta \in WheelDeltas : WheelEvent(delta)

SpecZoom == InitZoom /\ [][NextZoom]_vars

(***************************************************************************)
(* Properties of the zoom (checked under SpecZoom)                         *)
(***************************************************************************)
\* C29: from the initial zoom 1.0, after any sequence of zoomIn, zoomOut,
\* zoomToFit, zoomActualSize, resetView and wheel events the zoom is within
\* [kMinZoom, kMaxZoom] = [0.1, 8.0], and so zoomIn never lowers the zoom.
C29_ZoomWithinLimits ==
    /\ [](viewer.m_zoom >= kMinZoom /\ viewer.m_zoom <= kMaxZoom)
    /\ [][viewer'.lastOp = "zoomIn" => viewer'.m_zoom >= viewer.m_zoom]_vars

(***************************************************************************)
(* Reads of the accelerated path (checked under Spec)                      *)
(***************************************************************************)
\* the bytes uploadTexture reads from pixelData: setData with alignment 1
\* and a row length of width takes width * height texels of the format
uploadBytes(img) ==
    img.width * img.height *
        (IF img.samplesPerPixel = 3 THEN 3
         ELSE IF img.bitsPerSample = 16 THEN 2 ELSE 1)

\* some texel of the texture came from a read past the end of the buffer
ReadsPastBuffer(tex) ==
    \E i \in DOMAIN tex.texels :
        IF tex.isRgb THEN \E ch \in 1..3 : tex.texels[i][ch] = OutOfBounds
        ELSE tex.texels[i] = OutOfBounds

\* C30: the accelerated path never reads past the pixel buffer: for every
\* image that passes hasImage, the bytes uploadTexture reads (width * height *
\* bytes per sample for monochrome, width * height * 3 for RGB) are at most
\* pixelData.size().
C30_UploadWithinBuffer ==
    (Drawn /\ hasImage(image)) =>
        /\ uploadBytes(image) <= Len(image.pixelData)
        /\ ~ReadsPastBuffer(uploadTexture(image))

=============================================================================
